---- MODULE Spec2Model ----
(***************************************************************************)
(* Model of rds-replica-monitor (main.go): the monitoring loop of main(),  *)
(* one call of showReplicaStatus() per cycle, the package-level            *)
(* replicationStats it updates, and the recovery call.                     *)
(*                                                                         *)
(* Time is counted in whole seconds.  time.Time{} (the unset value of a    *)
(* time.Time field) is Unset; time.Now() never returns it, so the clock    *)
(* starts above it.  A float64 rate is modelled by the exact fraction      *)
(* <<numerator, denominator>> in lowest terms: the sign, the zero test and *)
(* the equality of two quotients are those of the float64 quotient.        *)
(* A string is a sequence of words.  A time.Duration is an integer of      *)
(* DurationBits bits that wraps around.                                    *)
(***************************************************************************)
EXTENDS Integers, Sequences, FiniteSets, TLC

\* ------------------------------------------------------------- bounds
\* The number of poll cycles followed.
MaxCycles == 3
\* The largest Seconds_Behind_Source value the server returns.
MaxLag == 2
\* The longest time the database calls of one cycle take.
MaxCallTime == 1
\* The longest Last_SQL_Error text tried against the patterns, in words.
MaxErrLen == 3
\* The longest pattern list tried.
MaxPatterns == 2
\* The width of a time.Duration, in bits (int64 in the program), and the
\* binary logarithm of time.Second, the units of a Duration in one second
\* (10^9 in the program): scaled down together, so that a catch-up time the
\* model's lags and waits reach leaves the range of a Duration, as
\* 9.3 * 10^9 seconds (292 years) does in the program.
DurationBits == 6
SecondBits == 2

\* ---------------------------------------------------------- constants
\* time.Time{}: the zero value of the time fields of ReplicationStats.
Unset == 0
\* time.Sleep(5 * time.Second)
PollInterval == 5

\* The words a Last_SQL_Error text is made of.
Alphabet == {"Coordinator", "stopped", "unexpectedly"}

\* errorPatterns := []string{"Coordinator stopped"}
errorPatterns == << <<"Coordinator", "stopped">> >>

\* ------------------------------------------------------------ helpers
RECURSIVE GCD(_, _)
GCD(a, b) == IF b = 0 THEN a ELSE GCD(b, a % b)

Abs(n) == IF n < 0 THEN -n ELSE n

Sgn(n) == IF n < 0 THEN -1 ELSE IF n > 0 THEN 1 ELSE 0

\* float64(n) / d as a fraction in lowest terms with a positive denominator.
\* A float64 division by zero does not panic: it gives +Inf, -Inf or NaN,
\* written <<1, 0>>, <<-1, 0>> and <<0, 0>>.
Rat(n, d) ==
    IF d = 0 THEN <<Sgn(n), 0>>
    ELSE LET g == GCD(Abs(n), Abs(d))
         IN  <<Sgn(d) * (n \div g), Abs(d) \div g>>

ZeroRate == <<0, 1>>

RateNeg(r) == r[1] < 0
RateZero(r) == r[1] = 0

\* time.Duration(float64(seconds) / -rate): the quotient truncated to whole
\* seconds, for a rate < 0 and seconds >= 0.
SecondsToCatchUp(seconds, r) == (seconds * r[2]) \div (-r[1])

\* time.Second
Second == 2 ^ SecondBits

\* An integer as a time.Duration holds it: wrapped into the signed range of
\* DurationBits bits.
DurationWrap(n) ==
    ((n + 2 ^ (DurationBits - 1)) % (2 ^ DurationBits)) - 2 ^ (DurationBits - 1)

\* time.Duration(secondsToCatchUp) * time.Second
CatchUpDuration(seconds, r) == DurationWrap(SecondsToCatchUp(seconds, r) * Second)

\* now.Add(d)
TimeAdd(now, d) == now + (d \div Second)

\* time.Now() when the monitoring loop starts: further from the zero time
\* than any Duration reaches.
StartClock == 2 ^ DurationBits

\* All texts of at most n words.
RECURSIVE TextsUpTo(_)
TextsUpTo(n) ==
    IF n = 0 THEN {<<>>}
    ELSE LET shorter == TextsUpTo(n - 1)
         IN  shorter \cup {Append(t, w) : t \in shorter, w \in Alphabet}

\* A pattern that regexp.MatchString cannot compile: an opening parenthesis
\* that is never closed.
BadPattern == <<"(">>

\* The pattern compiles: it holds no unclosed parenthesis.
Compiles(pattern) == \A j \in 1..Len(pattern) : pattern[j] # "("

\* A match anchored at the start of s.
RegexpMatchStringAnchored(pattern, s) ==
    [matched |-> /\ Compiles(pattern)
                 /\ Len(pattern) <= Len(s)
                 /\ \A j \in 1..Len(pattern) : s[j] = pattern[j],
     err |-> ~Compiles(pattern)]

\* regexp.MatchString(pattern, s): (false, err) for a pattern that does not
\* compile; for a pattern without metacharacters, whether the pattern occurs
\* somewhere in s.
RegexpMatchString(pattern, s) ==
    [matched |-> /\ Compiles(pattern)
                 /\ \E i \in 0..(Len(s) - Len(pattern)) :
                        \A j \in 1..Len(pattern) : s[i + j] = pattern[j],
     err |-> ~Compiles(pattern)]

\* --------------------------------------------------------------- state
VARIABLES
    pc,                 \* where main's loop stands: "poll", "recover", "sleep"
    cycles,             \* the status fetches made so far
    clock,              \* the wall clock
    replicationStats,   \* var replicationStats ReplicationStats
    cycle,              \* what the current cycle fetched, returned and printed
    prevHasError,       \* hasError of the last finished cycle: "true", "false",
                        \* or "none" before it
    sleeps,             \* time.Sleep calls since the last status fetch
    waited,             \* time slept since the last status fetch
    recoveries,         \* recovery calls since the last status fetch
    recovery,           \* what the last of them gave: "ok", "err", or "none"
    matchedRun,         \* the latest status fetches in a row whose error matched
    streak,             \* the latest recovery calls in a row with no sleep since
    first               \* the first sample ever ingested: <<lag, time>>, or <<>>

vars == <<pc, cycles, clock, replicationStats, cycle, prevHasError, sleeps, waited,
          recoveries, recovery, matchedRun, streak, first>>

\* The zero value of ReplicationStats.
ZeroStats ==
    [lastSecondsBehind |-> 0, lastCheckTime |-> Unset,
     ratePerSecond |-> ZeroRate, estimatedTime |-> Unset,
     startSecondsBehind |-> 0, startTime |-> Unset,
     totalTimeElapsed |-> ZeroRate, averageRatePerSecond |-> ZeroRate]

\* What db.Query, rows.Columns, rows.Next and rows.Scan can give.
Outcomes == {"queryErr", "colErr", "scanErr", "noRow", "row"}

\* The Seconds_Behind_Source column of a row: not among the columns, SQL
\* NULL (nil), the text "NULL", the empty text, a text that is no number,
\* or a number.
LagFields ==
    {[kind |-> k, n |-> 0] : k \in {"absent", "nil", "NULL", "empty", "garbage"}}
        \cup {[kind |-> "int", n |-> n] : n \in 0..MaxLag}

\* A Last_SQL_Error column: not among the columns, nil, or one of `texts`.
ErrFieldsOf(texts) ==
    {[kind |-> k, text |-> <<>>] : k \in {"absent", "nil"}}
        \cup {[kind |-> "text", text |-> t] : t \in texts}

\* The Last_SQL_Error texts the server of the monitoring loop returns.
ServerErrors ==
    {<<>>, <<"unexpectedly">>, <<"Coordinator", "stopped", "unexpectedly">>}

ErrFields == ErrFieldsOf(ServerErrors)

NoLag == [kind |-> "absent", n |-> 0]
NoErr == [kind |-> "absent", text |-> <<>>]

\* No cycle under way.
NoCycle ==
    [outcome |-> "none", now |-> Unset, lag |-> NoLag, sqlErr |-> NoErr,
     patterns |-> errorPatterns, updated |-> FALSE, before |-> ZeroStats,
     hasError |-> FALSE, lines |-> <<>>, instantETA |-> FALSE,
     averageETA |-> FALSE, averageETATime |-> Unset]

Init ==
    /\ pc = "poll"
    /\ cycles = 0
    /\ clock = StartClock
    /\ replicationStats = ZeroStats
    /\ cycle = NoCycle
    /\ prevHasError = "none"
    /\ sleeps = 0
    /\ waited = 0
    /\ recoveries = 0
    /\ recovery = "none"
    /\ matchedRun = 0
    /\ streak = 0
    /\ first = <<>>

\* ------------------------------------------------- showReplicaStatus
\* An anchor that is set again on every sample.
SetStartAlways(s, seconds, now) ==
    [s EXCEPT !.startSecondsBehind = seconds, !.startTime = now]

\* An anchor whose unset test reads the lag field: a start lag of 0 counts
\* as unset.
SetStartWhenZeroLag(s, seconds, now) ==
    IF s.startSecondsBehind = 0
    THEN [s EXCEPT !.startSecondsBehind = seconds, !.startTime = now]
    ELSE s

\* if replicationStats.startTime == (time.Time{}) { ... }
SetStart(s, seconds, now) ==
    IF s.startTime = Unset
    THEN [s EXCEPT !.startSecondsBehind = seconds, !.startTime = now]
    ELSE s

\* An update that never stores the estimate.
SetEstimatedTimeNever(s, seconds, now) == s

\* The estimate stored when the new short-term rate is negative.
SetEstimatedTime(s, seconds, now) ==
    IF RateNeg(s.ratePerSecond)
    THEN [s EXCEPT !.estimatedTime =
                       TimeAdd(now, CatchUpDuration(seconds, s.ratePerSecond))]
    ELSE s

\* A rate computed also when no time has passed (timeDiff >= 0).
SetRateOnZeroInterval(s, seconds, now) ==
    IF s.lastCheckTime # Unset
    THEN LET timeDiff == now - s.lastCheckTime
         IN  IF timeDiff >= 0
             THEN SetEstimatedTime(
                      [s EXCEPT !.ratePerSecond =
                                    Rat(seconds - s.lastSecondsBehind, timeDiff)],
                      seconds, now)
             ELSE s
    ELSE s

\* A rate with the difference taken the wrong way round
\* (lastSecondsBehind - seconds).
SetRateSignFlipped(s, seconds, now) ==
    IF s.lastCheckTime # Unset
    THEN LET timeDiff == now - s.lastCheckTime
         IN  IF timeDiff > 0
             THEN SetEstimatedTime(
                      [s EXCEPT !.ratePerSecond =
                                    Rat(s.lastSecondsBehind - seconds, timeDiff)],
                      seconds, now)
             ELSE s
    ELSE s

\* if replicationStats.lastCheckTime != (time.Time{}) { ... }
SetRate(s, seconds, now) ==
    IF s.lastCheckTime # Unset
    THEN LET timeDiff == now - s.lastCheckTime
         IN  IF timeDiff > 0
             THEN SetEstimatedTime(
                      [s EXCEPT !.ratePerSecond =
                                    Rat(seconds - s.lastSecondsBehind, timeDiff)],
                      seconds, now)
             ELSE s
    ELSE s

\* An average computed also when no time has passed since startTime
\* (totalTimeElapsed >= 0).
SetAverageRateOnZeroElapsed(s, seconds, now) ==
    LET totalTimeElapsed == now - s.startTime
    IN  IF totalTimeElapsed >= 0
        THEN [s EXCEPT !.averageRatePerSecond =
                           Rat(seconds - s.startSecondsBehind, totalTimeElapsed)]
        ELSE s

\* totalTimeElapsed := now.Sub(replicationStats.startTime).Seconds() ...
SetAverageRate(s, seconds, now) ==
    LET totalTimeElapsed == now - s.startTime
    IN  IF totalTimeElapsed > 0
        THEN [s EXCEPT !.averageRatePerSecond =
                           Rat(seconds - s.startSecondsBehind, totalTimeElapsed)]
        ELSE s

\* A last sample that is kept when no time has passed since it.
SetLastWhenTimePassed(s, seconds, now) ==
    IF s.lastCheckTime = Unset \/ now > s.lastCheckTime
    THEN [s EXCEPT !.lastSecondsBehind = seconds, !.lastCheckTime = now]
    ELSE s

\* replicationStats.lastSecondsBehind = seconds; lastCheckTime = now
SetLast(s, seconds, now) ==
    [s EXCEPT !.lastSecondsBehind = seconds, !.lastCheckTime = now]

\* The statistics after one parsed Seconds_Behind_Source value.
UpdateStats(s, seconds, now) ==
    SetLast(SetAverageRate(SetRate(SetStart(s, seconds, now), seconds, now),
                           seconds, now),
            seconds, now)

\* A parse whose Sscanf error is ignored: a text that is no number counts
\* as the number 0.
LagParsedIgnoringErr(lag) == lag.kind \in {"int", "garbage"}

\* strVal != "NULL" && strVal != "" and Sscanf(strVal, "%d", &seconds) gives
\* no error: the column holds a value that is parsed as a number.
LagParsed(lag) == lag.kind = "int"

\* The "Instant ETA" line is printed.
InstantETAPrinted(s) ==
    /\ ~RateZero(s.ratePerSecond)
    /\ RateNeg(s.ratePerSecond)
    /\ s.estimatedTime # Unset

\* An "Average ETA" line without the `seconds > 0` test.
AverageETAPrintedAnyLag(s, seconds) ==
    /\ ~RateZero(s.averageRatePerSecond)
    /\ RateNeg(s.averageRatePerSecond)

\* The "Average ETA" line is printed.
AverageETAPrinted(s, seconds) ==
    /\ ~RateZero(s.averageRatePerSecond)
    /\ RateNeg(s.averageRatePerSecond)
    /\ seconds > 0

\* averageETA := now.Add(time.Duration(secondsToCatchUp) * time.Second)
AverageETA(s, seconds, now) ==
    TimeAdd(now, CatchUpDuration(seconds, s.averageRatePerSecond))

\* lastSQLError: the text of a non-nil Last_SQL_Error column, else "".
LastSQLError(sqlErr) == IF sqlErr.kind = "text" THEN sqlErr.text ELSE <<>>

\* A pattern loop that takes a failed evaluation for a match.
RECURSIVE MatchPatternsErrMatches(_, _, _)
MatchPatternsErrMatches(patterns, lastSQLError, n) ==
    IF n = 0 THEN FALSE
    ELSE LET r == RegexpMatchString(patterns[n], lastSQLError)
             sofar == MatchPatternsErrMatches(patterns, lastSQLError, n - 1)
         IN  IF r.err THEN TRUE
             ELSE IF r.matched THEN TRUE ELSE sofar

\* The pattern loop: hasError after the patterns 1..n have been tried.
RECURSIVE MatchPatterns(_, _, _)
MatchPatterns(patterns, lastSQLError, n) ==
    IF n = 0 THEN FALSE
    ELSE LET r == RegexpMatchString(patterns[n], lastSQLError)
             sofar == MatchPatterns(patterns, lastSQLError, n - 1)
         IN  IF r.err THEN sofar
             ELSE IF r.matched THEN TRUE ELSE sofar

\* if lastSQLError != "" { for _, pattern := range errorPatterns { ... } }
HasError(patterns, lastSQLError) ==
    IF lastSQLError # <<>>
    THEN MatchPatterns(patterns, lastSQLError, Len(patterns))
    ELSE FALSE

\* The lines the pattern loop writes while the patterns 1..n are tried, in
\* the order written: <<k, "error">> for the log.Printf of a failed
\* evaluation of pattern k, <<k, "found">> for the "Pattern found" line.
RECURSIVE PatternLoopLines(_, _, _)
PatternLoopLines(patterns, lastSQLError, n) ==
    IF n = 0 THEN <<>>
    ELSE LET r == RegexpMatchString(patterns[n], lastSQLError)
             sofar == PatternLoopLines(patterns, lastSQLError, n - 1)
         IN  IF r.err THEN Append(sofar, <<n, "error">>)
             ELSE IF r.matched THEN Append(sofar, <<n, "found">>) ELSE sofar

\* The lines of the whole pattern check.
PatternLines(patterns, lastSQLError) ==
    IF lastSQLError # <<>>
    THEN PatternLoopLines(patterns, lastSQLError, Len(patterns))
    ELSE <<>>

\* A showReplicaStatus that reports an error when the query failed.
ReturnNoRowQueryErrTrue(outcome) == outcome = "queryErr"

\* What showReplicaStatus returns when no row was read.
ReturnNoRow(outcome) == FALSE

\* A loop that calls recovery after every status fetch.
AfterStatusAlwaysRecover(hasError) == "recover"

\* A loop with a retry cap: after two recovery calls in a row it sleeps.
AfterStatusCapped(hasError) ==
    IF hasError /\ streak < 2 THEN "recover" ELSE "sleep"

\* where the loop goes with showReplicaStatus's result
AfterStatus(hasError) == IF hasError THEN "recover" ELSE "sleep"

\* One call of showReplicaStatus: the fetch gives `outcome`, and for a row
\* the two columns.  The time its query takes passes when the cycle ends.
ShowReplicaStatus(outcome, lag, sqlErr) ==
    /\ pc = "poll"
    /\ cycles < MaxCycles
    /\ cycles' = cycles + 1
    /\ LET now == clock
           gotRow == outcome = "row"
           upd == gotRow /\ LagParsed(lag)
           s == IF upd THEN UpdateStats(replicationStats, lag.n, now)
                       ELSE replicationStats
           hasError == IF gotRow THEN HasError(errorPatterns, LastSQLError(sqlErr))
                                 ELSE ReturnNoRow(outcome)
       IN  /\ replicationStats' = s
           /\ cycle' = [outcome |-> outcome, now |-> now,
                        lag |-> IF gotRow THEN lag ELSE NoLag,
                        sqlErr |-> IF gotRow THEN sqlErr ELSE NoErr,
                        patterns |-> errorPatterns,
                        updated |-> upd,
                        before |-> replicationStats,
                        hasError |-> hasError,
                        lines |-> IF gotRow
                                  THEN PatternLines(errorPatterns,
                                                    LastSQLError(sqlErr))
                                  ELSE <<>>,
                        instantETA |-> upd /\ InstantETAPrinted(s),
                        averageETA |-> upd /\ AverageETAPrinted(s, lag.n),
                        averageETATime |->
                            IF upd /\ AverageETAPrinted(s, lag.n)
                            THEN AverageETA(s, lag.n, now)
                            ELSE Unset]
           /\ first' = IF upd /\ first = <<>> THEN <<lag.n, now>> ELSE first
           /\ matchedRun' = IF hasError THEN matchedRun + 1 ELSE 0
           /\ pc' = AfterStatus(hasError)
    /\ sleeps' = 0
    /\ waited' = 0
    /\ recoveries' = 0
    /\ recovery' = "none"
    /\ UNCHANGED <<clock, prevHasError, streak>>

\* --------------------------------------------------------------- main
\* hasError of cycle c as prevHasError records it; a step that ends no cycle
\* keeps the record.
HasErrorText(c) ==
    IF c.outcome = "none" THEN prevHasError
    ELSE IF c.hasError THEN "true" ELSE "false"

\* A loop that ends the process when the recovery call fails (log.Fatalf).
AfterRecoverFatal(result) == IF result = "err" THEN "exit" ELSE "poll"

\* A loop without the `continue`: the recovery call falls through to the sleep.
AfterRecoverFallThrough(result) == "sleep"

\* where the loop goes after the recovery call: continue
AfterRecover(result) == "poll"

\* db.Exec("CALL mysql.rds_skip_repl_error;") gives `result`; the query and
\* this call took d seconds together.
Recover(result, d) ==
    /\ pc = "recover"
    /\ clock' = clock + d
    /\ recoveries' = recoveries + 1
    /\ recovery' = result
    /\ streak' = streak + 1
    /\ prevHasError' = HasErrorText(cycle)
    /\ cycle' = NoCycle
    /\ pc' = AfterRecover(result)
    /\ UNCHANGED <<cycles, replicationStats, sleeps, waited, matchedRun, first>>

\* A loop that waits twice as long.
SleepTimeDoubled == PollInterval + PollInterval

\* how long the loop waits between checks
SleepTime == PollInterval

\* time.Sleep(5 * time.Second), then the next iteration; the query took d
\* seconds.
Sleep(d) ==
    /\ pc = "sleep"
    /\ clock' = clock + d + SleepTime
    /\ sleeps' = sleeps + 1
    /\ waited' = waited + SleepTime
    /\ prevHasError' = HasErrorText(cycle)
    /\ cycle' = NoCycle
    /\ streak' = 0
    /\ pc' = "poll"
    /\ UNCHANGED <<cycles, replicationStats, recoveries, recovery, matchedRun,
                   first>>

Fetch ==
    \E outcome \in Outcomes, lag \in LagFields, sqlErr \in ErrFields :
        /\ outcome # "row" => lag = NoLag /\ sqlErr = NoErr
        /\ ShowReplicaStatus(outcome, lag, sqlErr)

Recovery == \E result \in {"ok", "err"}, d \in 0..MaxCallTime : Recover(result, d)

Sleeping == \E d \in 0..MaxCallTime : Sleep(d)

Next == Fetch \/ Recovery \/ Sleeping

Spec == Init /\ [][Next]_vars

\* The process keeps running: a call that can return does return, the sleep
\* ends, and the loop takes its next step.
LiveSpec == Spec /\ WF_vars(Next)

\* ------------------------------------------------- the pattern check alone
\* The patterns tried: texts as long as the configured pattern at most, the
\* empty pattern (which occurs in every text) among them, and a pattern that
\* does not compile.
PatternTexts == TextsUpTo(Len(errorPatterns[1])) \cup {BadPattern}

\* All lists of at most n patterns.
RECURSIVE PatternListsUpTo(_)
PatternListsUpTo(n) ==
    IF n = 0 THEN {<<>>}
    ELSE LET shorter == PatternListsUpTo(n - 1)
         IN  shorter \cup {Append(l, t) : l \in shorter, t \in PatternTexts}

\* A row has been read whose Last_SQL_Error column is any field, and the
\* pattern list is any list.
MatchInit ==
    /\ pc = "match"
    /\ cycles = 1
    /\ clock = StartClock
    /\ replicationStats = ZeroStats
    /\ \E e \in ErrFieldsOf(TextsUpTo(MaxErrLen)),
          l \in PatternListsUpTo(MaxPatterns) :
            cycle = [NoCycle EXCEPT !.outcome = "row", !.now = clock,
                                    !.sqlErr = e, !.patterns = l]
    /\ prevHasError = "none"
    /\ sleeps = 0
    /\ waited = 0
    /\ recoveries = 0
    /\ recovery = "none"
    /\ matchedRun = 0
    /\ streak = 0
    /\ first = <<>>

\* The end of showReplicaStatus from "Check for error patterns" on, and the
\* loop's branch on its result.
CheckErrorPatterns ==
    /\ pc = "match"
    /\ LET hasError == HasError(cycle.patterns, LastSQLError(cycle.sqlErr))
       IN  /\ cycle' = [cycle EXCEPT
                           !.hasError = hasError,
                           !.lines = PatternLines(cycle.patterns,
                                                  LastSQLError(cycle.sqlErr))]
           /\ pc' = AfterStatus(hasError)
    /\ UNCHANGED <<cycles, clock, replicationStats, prevHasError, sleeps, waited,
                   recoveries, recovery, matchedRun, streak, first>>

MatchNext == CheckErrorPatterns

MatchSpec == MatchInit /\ [][MatchNext]_vars

\* ============================================================ claims
\* The next status fetch is about to be made and a cycle has finished.
BetweenFetches == pc = "poll" /\ cycles > 0

\* `pattern` occurs in `text` at some position.
Contains(text, pattern) ==
    \E i \in 1..(Len(text) + 1), j \in 0..Len(text) :
        SubSeq(text, i, j) = pattern

\* C1: a cycle whose Last_SQL_Error matched goes to the recovery call, and
\* when the next status fetch is due after such a cycle, recovery has been
\* called exactly once and nothing has been slept, whatever recovery gave.
C1_RecoverOnceThenPoll ==
    /\ (cycle.outcome # "none" /\ cycle.hasError)
            => pc = "recover" /\ recoveries = 0 /\ sleeps = 0
    /\ (BetweenFetches /\ prevHasError = "true")
            => recoveries = 1 /\ sleeps = 0 /\ waited = 0
               /\ recovery \in {"ok", "err"}

C1_Witness ==
    BetweenFetches /\ prevHasError = "true" /\ recovery = "err" /\ recoveries = 1

\* C2: recovery is called only in a cycle that read a row whose
\* Last_SQL_Error holds a pattern; a cycle whose fetch failed or found no
\* row goes to the sleep without a recovery call.
C2_RecoverOnlyOnMatchedRow ==
    /\ pc = "recover"
            => /\ cycle.outcome = "row"
               /\ cycle.sqlErr.kind = "text"
               /\ \E k \in 1..Len(errorPatterns) :
                      Contains(cycle.sqlErr.text, errorPatterns[k])
    /\ recoveries > 0 => prevHasError = "true"
    /\ cycle.outcome \in {"queryErr", "colErr", "scanErr", "noRow"}
            => pc = "sleep" /\ recoveries = 0 /\ ~cycle.hasError
    /\ (BetweenFetches /\ prevHasError = "false") => recoveries = 0

C2_Witness ==
    cycle.outcome \in {"queryErr", "colErr", "scanErr"} /\ pc = "sleep" /\ cycles > 1

C4_UnmatchedSleepsOnce ==
    /\ (cycle.outcome # "none" /\ ~cycle.hasError)
            => pc = "sleep" /\ sleeps = 0 /\ recoveries = 0
    /\ (BetweenFetches /\ prevHasError = "false")
            => sleeps = 1 /\ waited = PollInterval /\ recoveries = 0
    /\ (pc = "poll" /\ sleeps > 0) => prevHasError = "false"

C4_Witness ==
    /\ BetweenFetches /\ prevHasError = "false" /\ sleeps = 1
    /\ clock >= StartClock + PollInterval

\* C5: after every update made later than the first sample ever ingested,
\* averageRatePerSecond is (lag - first lag) / (now - first time); the
\* quotient is compared by cross-multiplication.
C5_AverageFromFirstSample ==
    (cycle.updated /\ first # <<>> /\ cycle.now > first[2]) =>
        LET avg == replicationStats.averageRatePerSecond
        IN  /\ avg[2] > 0
            /\ avg[1] * (cycle.now - first[2]) = (cycle.lag.n - first[1]) * avg[2]

C5_Witness ==
    /\ cycle.updated /\ first # <<>> /\ cycle.now > first[2]
    /\ ~RateZero(cycle.before.averageRatePerSecond)
    /\ replicationStats.averageRatePerSecond # cycle.before.averageRatePerSecond
    /\ cycle.before.lastCheckTime > first[2]

\* C6: an update prints the instant ETA if and only if ratePerSecond is
\* below zero after the update, repeated timestamps included.
C6_InstantETAIffNegativeRate ==
    cycle.updated =>
        (cycle.instantETA <=> replicationStats.ratePerSecond[1] < 0)

C6_Witness ==
    /\ cycle.updated /\ cycle.instantETA
    /\ cycle.now = cycle.before.lastCheckTime

\* C7: an update at the previous sample's time keeps ratePerSecond, an update
\* not later than startTime keeps averageRatePerSecond, and no rate is ever
\* the result of a division by zero.
C7_ZeroIntervalKeepsRates ==
    /\ (cycle.updated /\ cycle.before.lastCheckTime # Unset
            /\ cycle.now = cycle.before.lastCheckTime)
            => replicationStats.ratePerSecond = cycle.before.ratePerSecond
    /\ (cycle.updated /\ first # <<>> /\ cycle.now <= first[2])
            => replicationStats.averageRatePerSecond
                   = cycle.before.averageRatePerSecond
    /\ replicationStats.ratePerSecond[2] > 0
    /\ replicationStats.averageRatePerSecond[2] > 0

C7_Witness ==
    /\ cycle.updated /\ cycle.before.lastCheckTime # Unset
    /\ cycle.now = cycle.before.lastCheckTime
    /\ cycle.lag.n # cycle.before.lastSecondsBehind
    /\ ~RateZero(replicationStats.ratePerSecond)

\* C8: startTime and startSecondsBehind are unset until the first cycle with
\* a parsed lag value, hold that cycle's time and lag from then on, and no
\* later cycle or recovery call changes them.
C8_StartSetOnce ==
    IF first = <<>>
    THEN /\ replicationStats.startTime = Unset
         /\ replicationStats.startSecondsBehind = 0
         /\ ~cycle.updated
    ELSE /\ replicationStats.startSecondsBehind = first[1]
         /\ replicationStats.startTime = first[2]

C8_Witness ==
    /\ BetweenFetches /\ recoveries = 1 /\ first # <<>>
    /\ replicationStats.lastCheckTime > first[2]
    /\ replicationStats.lastSecondsBehind # first[1]
    /\ cycles >= 3

\* C9: an empty or absent Last_SQL_Error gives hasError = false for every
\* pattern list and goes to the sleep; a Last_SQL_Error in which a pattern
\* of the list occurs at any position gives hasError = true.
C9_EmptyNeverMatchesSubstringDoes ==
    pc # "match" =>
        /\ (cycle.sqlErr.kind # "text" \/ cycle.sqlErr.text = <<>>)
                => ~cycle.hasError /\ pc = "sleep"
        /\ (/\ cycle.sqlErr.kind = "text"
            /\ cycle.sqlErr.text # <<>>
            /\ \E k \in 1..Len(cycle.patterns) :
                   Contains(cycle.sqlErr.text, cycle.patterns[k]))
                => cycle.hasError /\ pc = "recover"

C9_Witness ==
    /\ pc = "recover"
    /\ cycle.patterns = errorPatterns
    /\ cycle.sqlErr.text = <<"Coordinator", "stopped", "unexpectedly">>

\* C10: the loop never stops: after every cycle's sleep or recovery call,
\* whatever the cycle was and whatever recovery gave, the loop stands at
\* the next status fetch again, and within the cycles followed that fetch
\* is made.
C10_AlwaysAnotherFetch ==
    /\ (pc # "poll") ~> (pc = "poll")
    /\ (pc = "poll" /\ cycles < MaxCycles) ~> (pc # "poll")

C10_Witness ==
    /\ pc = "poll" /\ cycles >= 3
    /\ prevHasError = "true" /\ recovery = "err"

\* C11: an update that has a previous sample and is later than it sets
\* ratePerSecond to (sample - lastSecondsBehind) / timeDiff (compared by
\* cross-multiplication); when that rate is a negative whole number, as in
\* the samples (100, t0), (90, t0 + 10s), estimatedTime is now plus
\* sample / -rate.
C11_InstantRateFromLastSample ==
    (cycle.updated /\ cycle.before.lastCheckTime # Unset
        /\ cycle.now > cycle.before.lastCheckTime) =>
        LET rate == replicationStats.ratePerSecond
            timeDiff == cycle.now - cycle.before.lastCheckTime
            secondsDiff == cycle.lag.n - cycle.before.lastSecondsBehind
        IN  /\ rate[2] > 0
            /\ rate[1] * timeDiff = secondsDiff * rate[2]
            /\ (rate[1] < 0 /\ rate[2] = 1) =>
                   replicationStats.estimatedTime * (-rate[1])
                       = cycle.now * (-rate[1]) + cycle.lag.n
                             - (cycle.lag.n % (-rate[1]))

C11_Witness ==
    /\ cycle.updated /\ cycle.before.lastCheckTime # Unset
    /\ cycle.now = cycle.before.lastCheckTime + 1
    /\ cycle.before.lastSecondsBehind = 2 /\ cycle.lag.n = 1
    /\ replicationStats.ratePerSecond = <<-1, 1>>
    /\ replicationStats.estimatedTime = cycle.now + 1

\* C12: estimatedTime is set only while ratePerSecond is below zero: an
\* update that leaves the rate at zero or above leaves the estimate unset.
C12_EstimateUnsetUnlessCatchingUp ==
    replicationStats.estimatedTime # Unset
        => replicationStats.ratePerSecond[1] < 0

\* C13: the instant ETA an update prints is that update's now plus that
\* update's sample / -ratePerSecond, truncated to whole seconds.
C13_InstantETAFromOwnSample ==
    (cycle.updated /\ cycle.instantETA) =>
        LET rate == replicationStats.ratePerSecond
            k == -rate[1]
            whole == cycle.lag.n * rate[2]
        IN  (replicationStats.estimatedTime - cycle.now) * k = whole - (whole % k)

\* C14: a cycle that supplies no usable lag value (failed fetch, failed
\* scan, no row, Seconds_Behind_Source NULL, empty or no number) leaves
\* every field of replicationStats as it was.
C14_NoLagNoChange ==
    (cycle.outcome # "none" /\ ~(cycle.outcome = "row" /\ cycle.lag.kind = "int"))
        => replicationStats = cycle.before /\ ~cycle.updated

C14_Witness ==
    /\ cycle.outcome = "row" /\ cycle.lag.kind = "garbage"
    /\ cycle.before.lastCheckTime # Unset
    /\ cycle.before.ratePerSecond[1] < 0
    /\ cycle.now > cycle.before.lastCheckTime

\* C16: after every update lastSecondsBehind is the update's sample and
\* lastCheckTime its now, whether or not time has passed since the previous
\* sample and whether or not the cycle's error matched.
C16_LastSampleStored ==
    cycle.updated =>
        /\ replicationStats.lastSecondsBehind = cycle.lag.n
        /\ replicationStats.lastCheckTime = cycle.now

C16_Witness ==
    /\ cycle.updated /\ pc = "recover"
    /\ cycle.now = cycle.before.lastCheckTime
    /\ cycle.lag.n # cycle.before.lastSecondsBehind
    /\ replicationStats.lastSecondsBehind = cycle.lag.n

\* C17: an update prints the average ETA if and only if
\* averageRatePerSecond is below zero and the sample is above zero after
\* it; a zero lag or a constant lag (average rate 0) prints none.
C17_AverageETAIffCatchingUp ==
    cycle.updated =>
        (cycle.averageETA <=>
            (replicationStats.averageRatePerSecond[1] < 0 /\ cycle.lag.n > 0))

C17_Witness ==
    /\ cycle.updated /\ ~cycle.averageETA
    /\ replicationStats.averageRatePerSecond[1] < 0
    /\ cycle.lag.n = 0

\* The update of this cycle is the first one ever.
FirstUpdate == cycle.updated /\ cycle.before = ZeroStats

\* C18: after the very first update, for any sample, startSecondsBehind and
\* startTime are the sample and its time, both rates are 0, and neither
\* ETA is printed.
C18_FirstUpdate ==
    FirstUpdate =>
        /\ replicationStats.startSecondsBehind = cycle.lag.n
        /\ replicationStats.startTime = cycle.now
        /\ replicationStats.ratePerSecond = ZeroRate
        /\ replicationStats.averageRatePerSecond = ZeroRate
        /\ ~cycle.instantETA
        /\ ~cycle.averageETA

C18_Witness ==
    FirstUpdate /\ cycle.lag.n = 0 /\ cycles > 1 /\ first = <<0, cycle.now>>

\* C15: the patterns are tried in the order of the list; a pattern whose
\* evaluation fails is logged, counts as no match, and the patterns after
\* it are still tried: hasError is true if and only if Last_SQL_Error is not
\* empty and a pattern that compiles occurs in it, and the loop goes on to
\* the sleep or to recovery.
C15_FailingPatternSkipped ==
    pc # "match" =>
        LET text == IF cycle.sqlErr.kind = "text" THEN cycle.sqlErr.text ELSE <<>>
            good == {k \in 1..Len(cycle.patterns) :
                        /\ Compiles(cycle.patterns[k])
                        /\ Contains(text, cycle.patterns[k])}
            bad == {k \in 1..Len(cycle.patterns) : ~Compiles(cycle.patterns[k])}
            n == Len(cycle.lines)
        IN  /\ cycle.hasError <=> (text # <<>> /\ good # {})
            /\ pc = IF cycle.hasError THEN "recover" ELSE "sleep"
            /\ \A i \in 1..n, j \in 1..n :
                   i < j => cycle.lines[i][1] < cycle.lines[j][1]
            /\ text # <<>> =>
                   /\ {cycle.lines[i][1] : i \in {i \in 1..n :
                           cycle.lines[i][2] = "error"}} = bad
                   /\ {cycle.lines[i][1] : i \in {i \in 1..n :
                           cycle.lines[i][2] = "found"}} = good

C15_Witness ==
    /\ pc = "recover"
    /\ cycle.patterns = <<BadPattern, <<"Coordinator", "stopped">> >>
    /\ cycle.sqlErr.text = <<"Coordinator", "stopped", "unexpectedly">>
    /\ cycle.lines = << <<1, "error">>, <<2, "found">> >>

\* C19: recovery has no cap and no backoff: as many status fetches in a row
\* have matched, so many recovery calls in a row have been made with no
\* sleep between them, however long the run of matches is.
C19_NoRetryCap ==
    /\ pc = "poll" => streak = matchedRun
    /\ pc = "recover" => streak = matchedRun - 1 /\ matchedRun > 0
    /\ matchedRun > 0 => pc # "sleep" /\ sleeps = 0 /\ waited = 0

C19_Witness ==
    pc = "poll" /\ streak >= 3 /\ matchedRun = cycles /\ recovery = "err"

\* C20: for a lag of 0 or more, no ETA an update computes, instant or
\* average, is earlier than that update's now.
C20_ETANotBeforeNow ==
    /\ (cycle.updated /\ cycle.now > cycle.before.lastCheckTime
            /\ replicationStats.ratePerSecond[1] < 0)
            => replicationStats.estimatedTime >= cycle.now
    /\ (cycle.updated /\ cycle.averageETA) => cycle.averageETATime >= cycle.now

====
